---- MODULE Spec2Model ----
(***************************************************************************)
(* GreenGuard AI waste scanner (src/waste_scanner.py): the heuristic       *)
(* pipeline of analyze_waste_item.                                         *)
(*                                                                         *)
(*   inspect_image  -> metrics, flags (thresholds, then the override)      *)
(*   classify_item  -> (verdict, action, explanation, bucket)              *)
(*   estimate_confidence -> confidence                                     *)
(*   random.choice(IMPACT_STATEMENTS[bucket]) -> impact                    *)
(*                                                                         *)
(* Numbers.  A metric is an exact fraction <<n, d>> (d > 0), compared with *)
(* the thresholds by cross-multiplication; the thresholds are written in   *)
(* hundredths (0.32 is 32).  A pixel is <<r, g, b>> of 8-bit values, the   *)
(* code's arr being value / 255.  The confidence is in thousandths (0.6 is *)
(* 600), so that round(base, 2) has digits to round.                       *)
(***************************************************************************)
EXTENDS Integers, Sequences, FiniteSets

VARIABLES np, image, pc, metrics, flags, classification, confidence, impact,
          result

\* Repeated calls of analyze_waste_item on one image: the number of the
\* current call and what the call before it returned.
VARIABLES calls, prev

\* waste_scanner_page: the file in the uploader widget and the two
\* st.session_state entries.
VARIABLES uploaded_file, waste_result, waste_last_filename

\* app.py: C["AI_CONFIG"].get("ThinkingMessage"), HAS_LLM,
\* st.session_state.chat_history, and whether st.rerun() has asked for
\* another run of main().
VARIABLES thinking_message, HAS_LLM, chat_history, rerun

scanVars == <<np, image, pc, metrics, flags, classification, confidence,
              impact, result>>
callVars == <<calls, prev>>
pageVars == <<uploaded_file, waste_result, waste_last_filename>>
chatVars == <<thinking_message, HAS_LLM, chat_history, rerun>>

vars == <<np, image, pc, metrics, flags, classification, confidence, impact,
          result, calls, prev, uploaded_file, waste_result,
          waste_last_filename, thinking_message, HAS_LLM, chat_history, rerun>>

\* A local that has not been assigned yet, and Python's None.
None == "None"

(***************************************************************************)
(* Bounds and input sets                                                   *)
(***************************************************************************)
\* Number of pixels of the resized buffer (224 * 224 in the code).
NumPixels == 4

\* Number of calls of analyze_waste_item made on one image.
MaxCalls == 2

\* Number of messages a user sends in the chat.
MaxMessages == 3

\* Colours the pixels of an image are drawn from: black, mid-gray, white,
\* pure red, dark red, cyan.
Palette == { <<0, 0, 0>>, <<128, 128, 128>>, <<255, 255, 255>>,
             <<255, 0, 0>>, <<90, 20, 20>>, <<0, 255, 255>> }

Images == [1..NumPixels -> Palette]

\* Values in hundredths on both sides of, and on, every threshold.
BrightnessGrid == {0, 20, 35, 37, 40, 50, 65, 68, 70, 75, 80, 90, 100}
WarmGrid == {0, 32, 33, 100}
DarkGrid == {0, 50, 51, 100}
ShinyGrid == {0, 25, 26, 45, 46, 100}
NeutralGrid == {0, 45, 46, 100}

Hundredths(S) == { <<k, 100>> : k \in S }

MetricSets == [ brightness : Hundredths(BrightnessGrid),
                dark_fraction : Hundredths(DarkGrid),
                warm_fraction : Hundredths(WarmGrid),
                shiny_fraction : Hundredths(ShinyGrid),
                neutral_fraction : Hundredths(NeutralGrid) ]

FlagNames == {"food_residue", "black_plastic", "soft_plastic", "paper_lining",
              "clean_material"}

FlagSets == [FlagNames -> BOOLEAN]

(***************************************************************************)
(* Arithmetic helpers                                                      *)
(***************************************************************************)
\* x > h / 100 and x < h / 100 for a fraction x = <<n, d>>.
GT(x, h) == x[1] * 100 > h * x[2]
LT(x, h) == x[1] * 100 < h * x[2]

max(a, b) == IF a >= b THEN a ELSE b
min(a, b) == IF a <= b THEN a ELSE b

\* round(x, 2) of a value in thousandths: the nearest hundredth, a tie going
\* to the even one.
round(x) ==
  LET q == x \div 10
      r == x % 10
  IN IF r > 5 \/ (r = 5 /\ q % 2 = 1) THEN (q + 1) * 10 ELSE q * 10

(***************************************************************************)
(* inspect_image: the metric extractor                                     *)
(***************************************************************************)
ChannelSum(p) == p[1] + p[2] + p[3]
ChannelMax(p) == max(p[1], max(p[2], p[3]))
ChannelMin(p) == min(p[1], min(p[2], p[3]))

\* Mutant of DarkPixel: the comparison the wrong way round.
DarkPixel_flipped(p) == 4 * ChannelSum(p) > 3 * 255

\* channel_mean < 0.25
DarkPixel(p) == 4 * ChannelSum(p) < 3 * 255

\* (r - g > 0.08) & (r - b > 0.08)
WarmPixel(p) == /\ 100 * (p[1] - p[2]) > 8 * 255
                /\ 100 * (p[1] - p[3]) > 8 * 255

\* (max > 0.9) & (min < 0.2)
ShinyPixel(p) == /\ 10 * ChannelMax(p) > 9 * 255
                 /\ 10 * ChannelMin(p) < 2 * 255

\* std over the three channels < 0.05: with S the sum and Q the sum of
\* squares, the variance is Q/3 - (S/3)^2, in units of 255^2.
NeutralPixel(p) ==
  LET S == ChannelSum(p)
      Q == p[1] * p[1] + p[2] * p[2] + p[3] * p[3]
  IN (3 * Q - S * S) * 400 < 9 * 255 * 255

RECURSIVE TotalSum(_, _)
TotalSum(img, n) == IF n = 0 THEN 0 ELSE ChannelSum(img[n]) + TotalSum(img, n - 1)

\* mask.mean(): the fraction of the pixels in the mask.
Fraction(img, mask) == << Cardinality(mask), Len(img) >>

DarkMask(img) == { i \in DOMAIN img : DarkPixel(img[i]) }
WarmMask(img) == { i \in DOMAIN img : WarmPixel(img[i]) }
ShinyMask(img) == { i \in DOMAIN img : ShinyPixel(img[i]) }
NeutralMask(img) == { i \in DOMAIN img : NeutralPixel(img[i]) }

\* Mutant of DEFAULT_METRICS: a neutral_fraction above its threshold.
DEFAULT_METRICS_neutral ==
  [ brightness |-> <<55, 100>>,
    dark_fraction |-> <<20, 100>>,
    warm_fraction |-> <<20, 100>>,
    shiny_fraction |-> <<20, 100>>,
    neutral_fraction |-> <<50, 100>> ]

DEFAULT_METRICS ==
  [ brightness |-> <<55, 100>>,
    dark_fraction |-> <<20, 100>>,
    warm_fraction |-> <<20, 100>>,
    shiny_fraction |-> <<20, 100>>,
    neutral_fraction |-> <<20, 100>> ]

\* Mutant of ComputeMetrics: brightness as the mean over the pixels of the
\* channel sums, the division by the three channels forgotten.
ComputeMetrics_per_pixel(img) ==
  [ brightness |-> << TotalSum(img, Len(img)), Len(img) * 255 >>,
    dark_fraction |-> Fraction(img, DarkMask(img)),
    warm_fraction |-> Fraction(img, WarmMask(img)),
    shiny_fraction |-> Fraction(img, ShinyMask(img)),
    neutral_fraction |-> Fraction(img, NeutralMask(img)) ]

ComputeMetrics(img) ==
  [ brightness |-> << TotalSum(img, Len(img)), 3 * Len(img) * 255 >>,
    dark_fraction |-> Fraction(img, DarkMask(img)),
    warm_fraction |-> Fraction(img, WarmMask(img)),
    shiny_fraction |-> Fraction(img, ShinyMask(img)),
    neutral_fraction |-> Fraction(img, NeutralMask(img)) ]

(***************************************************************************)
(* inspect_image: the flags                                                *)
(***************************************************************************)
\* Mutant of ThresholdFlags: warm_fraction compared with >= instead of >.
ThresholdFlags_inclusive(m) ==
  [ food_residue |-> ~LT(m.warm_fraction, 32) /\ LT(m.brightness, 70),
    black_plastic |-> GT(m.dark_fraction, 50) /\ LT(m.brightness, 40),
    soft_plastic |-> GT(m.shiny_fraction, 45) /\ GT(m.brightness, 35),
    paper_lining |-> GT(m.brightness, 65) /\ GT(m.shiny_fraction, 25),
    clean_material |-> GT(m.neutral_fraction, 45) ]

\* Mutant of ThresholdFlags: paper_lining with soft_plastic's brightness
\* threshold.
ThresholdFlags_paper(m) ==
  [ food_residue |-> GT(m.warm_fraction, 32) /\ LT(m.brightness, 70),
    black_plastic |-> GT(m.dark_fraction, 50) /\ LT(m.brightness, 40),
    soft_plastic |-> GT(m.shiny_fraction, 45) /\ GT(m.brightness, 35),
    paper_lining |-> GT(m.brightness, 35) /\ GT(m.shiny_fraction, 25),
    clean_material |-> GT(m.neutral_fraction, 45) ]

ThresholdFlags(m) ==
  [ food_residue |-> GT(m.warm_fraction, 32) /\ LT(m.brightness, 70),
    black_plastic |-> GT(m.dark_fraction, 50) /\ LT(m.brightness, 40),
    soft_plastic |-> GT(m.shiny_fraction, 45) /\ GT(m.brightness, 35),
    paper_lining |-> GT(m.brightness, 65) /\ GT(m.shiny_fraction, 25),
    clean_material |-> GT(m.neutral_fraction, 45) ]

\* Mutant of Override: soft_plastic left out of the condition.
Override_no_soft(f) ==
  IF f.food_residue \/ f.black_plastic
  THEN [f EXCEPT !.clean_material = FALSE]
  ELSE f

\* Mutant of Override: the override left out.
Override_skipped(f) == f

Override(f) ==
  IF f.food_residue \/ f.black_plastic \/ f.soft_plastic
  THEN [f EXCEPT !.clean_material = FALSE]
  ELSE f

(***************************************************************************)
(* classify_item: <<verdict, action, explanation, bucket>>                 *)
(***************************************************************************)
RuleBlackPlastic ==
  << "Not Recyclable", "Place this in general waste",
     "Deep black pigments absorb the sorting lasers", "reject" >>
RuleSoftPlastic ==
  << "Not Recyclable", "Drop soft plastic films at a store take-back bin",
     "Thin, reflective plastic film tangles in machinery", "reject" >>
RuleFoodResidue ==
  << "Rinse & Recycle", "Rinse off the food residue",
     "Organic residue can contaminate paper and cardboard", "rinse" >>
RulePaperLining ==
  << "Rinse & Recycle", "Peel out the plastic lining or lid",
     "Paper cups and cartons often have thin plastic liners", "rinse" >>
RuleCleanMaterial ==
  << "Recyclable", "Place it in your mixed recycling bin",
     "No contamination detected", "recycle" >>
RuleDefault ==
  << "Rinse & Recycle", "Give it a quick check",
     "The scanner saw mixed cues", "rinse" >>

\* Mutant of classify_item: the food_residue rule tried first.
classify_item_food_first(f) ==
  IF f.food_residue THEN RuleFoodResidue
  ELSE IF f.black_plastic THEN RuleBlackPlastic
  ELSE IF f.soft_plastic THEN RuleSoftPlastic
  ELSE IF f.paper_lining THEN RulePaperLining
  ELSE IF f.clean_material THEN RuleCleanMaterial
  ELSE RuleDefault

classify_item(f) ==
  IF f.black_plastic THEN RuleBlackPlastic
  ELSE IF f.soft_plastic THEN RuleSoftPlastic
  ELSE IF f.food_residue THEN RuleFoodResidue
  ELSE IF f.paper_lining THEN RulePaperLining
  ELSE IF f.clean_material THEN RuleCleanMaterial
  ELSE RuleDefault

(***************************************************************************)
(* estimate_confidence, in thousandths                                     *)
(***************************************************************************)
\* Mutant of estimate_confidence: the upper clamp missing.
estimate_confidence_no_cap(f, brightness) ==
  LET true_flags == Cardinality({ k \in DOMAIN f : f[k] })
      base0 == 600 + 80 * max(true_flags - 1, 0)
      base1 == IF f.clean_material \/ f.black_plastic THEN base0 + 100 ELSE base0
      base2 == IF GT(brightness, 35) /\ LT(brightness, 80) THEN base1 + 50 ELSE base1
  IN max(450, round(base2))

\* Mutant of estimate_confidence: the brightness bonus with <= bounds.
estimate_confidence_inclusive(f, brightness) ==
  LET true_flags == Cardinality({ k \in DOMAIN f : f[k] })
      base0 == 600 + 80 * max(true_flags - 1, 0)
      base1 == IF f.clean_material \/ f.black_plastic THEN base0 + 100 ELSE base0
      base2 == IF ~LT(brightness, 35) /\ ~GT(brightness, 80) THEN base1 + 50 ELSE base1
  IN max(450, min(950, round(base2)))

estimate_confidence(f, brightness) ==
  LET true_flags == Cardinality({ k \in DOMAIN f : f[k] })
      base0 == 600 + 80 * max(true_flags - 1, 0)
      base1 == IF f.clean_material \/ f.black_plastic THEN base0 + 100 ELSE base0
      base2 == IF GT(brightness, 35) /\ LT(brightness, 80) THEN base1 + 50 ELSE base1
  IN max(450, min(950, round(base2)))

(***************************************************************************)
(* analyze_waste_item: the impact message and the returned dict            *)
(***************************************************************************)
IMPACT_STATEMENTS ==
  [ recycle |-> << "You kept a clean stream",
                   "Nice! That's enough material",
                   "Clean recyclables like this" >>,
    rinse |-> << "A 30-second rinse",
                 "Rinsing keeps this out of landfill",
                 "Quick cleaning like this" >>,
    reject |-> << "Spotting non-recyclables early",
                  "Diverting this now",
                  "Good catch" >> ]

\* Mutant of AnalyzeResult: the impact message stored as the explanation too.
AnalyzeResult_impact_leak(c, imp, f, m, conf) ==
  [ verdict |-> c[1],
    action |-> c[2],
    explanation |-> imp,
    impact |-> imp,
    features |-> f,
    metrics |-> m,
    confidence |-> conf ]

\* Mutant of AnalyzeResult: action and explanation swapped.
AnalyzeResult_swapped(c, imp, f, m, conf) ==
  [ verdict |-> c[1],
    action |-> c[3],
    explanation |-> c[2],
    impact |-> imp,
    features |-> f,
    metrics |-> m,
    confidence |-> conf ]

AnalyzeResult(c, imp, f, m, conf) ==
  [ verdict |-> c[1],
    action |-> c[2],
    explanation |-> c[3],
    impact |-> imp,
    features |-> f,
    metrics |-> m,
    confidence |-> conf ]

(***************************************************************************)
(* The steps of analyze_waste_item                                         *)
(***************************************************************************)
\* inspect_image, lines 106-133: the fallback or the computed metrics.
InspectMetrics ==
  /\ pc = "inspect"
  /\ metrics' = IF ~np THEN DEFAULT_METRICS ELSE ComputeMetrics(image)
  /\ pc' = "thresholds"
  /\ UNCHANGED <<np, image, flags, classification, confidence, impact, result>>
  /\ UNCHANGED <<callVars, pageVars, chatVars>>

\* inspect_image, lines 135-141.
InspectThresholds ==
  /\ pc = "thresholds"
  /\ flags' = ThresholdFlags(metrics)
  /\ pc' = "override"
  /\ UNCHANGED <<np, image, metrics, classification, confidence, impact, result>>
  /\ UNCHANGED <<callVars, pageVars, chatVars>>

\* inspect_image, lines 143-146.
InspectOverride ==
  /\ pc = "override"
  /\ flags' = Override(flags)
  /\ pc' = "classify"
  /\ UNCHANGED <<np, image, metrics, classification, confidence, impact, result>>
  /\ UNCHANGED <<callVars, pageVars, chatVars>>

\* analyze_waste_item, line 89.
Classify ==
  /\ pc = "classify"
  /\ classification' = classify_item(flags)
  /\ pc' = "confidence"
  /\ UNCHANGED <<np, image, metrics, flags, confidence, impact, result>>
  /\ UNCHANGED <<callVars, pageVars, chatVars>>

\* analyze_waste_item, line 90.
EstimateConfidence ==
  /\ pc = "confidence"
  /\ confidence' = estimate_confidence(flags, metrics.brightness)
  /\ pc' = "impact"
  /\ UNCHANGED <<np, image, metrics, flags, classification, impact, result>>
  /\ UNCHANGED <<callVars, pageVars, chatVars>>

\* Mutant of ChooseImpact: the message drawn from any category's list.
ChooseImpact_any_list ==
  /\ pc = "impact"
  /\ \E b \in DOMAIN IMPACT_STATEMENTS :
       \E i \in DOMAIN IMPACT_STATEMENTS[b] :
         impact' = IMPACT_STATEMENTS[b][i]
  /\ pc' = "return"
  /\ UNCHANGED <<np, image, metrics, flags, classification, confidence, result>>
  /\ UNCHANGED <<callVars, pageVars, chatVars>>

\* analyze_waste_item, line 91: random.choice picks any entry of the list.
ChooseImpact ==
  /\ pc = "impact"
  /\ \E i \in DOMAIN IMPACT_STATEMENTS[classification[4]] :
       impact' = IMPACT_STATEMENTS[classification[4]][i]
  /\ pc' = "return"
  /\ UNCHANGED <<np, image, metrics, flags, classification, confidence, result>>
  /\ UNCHANGED <<callVars, pageVars, chatVars>>

\* analyze_waste_item, lines 93-101.
Return ==
  /\ pc = "return"
  /\ result' = AnalyzeResult(classification, impact, flags, metrics, confidence)
  /\ pc' = "done"
  /\ UNCHANGED <<np, image, metrics, flags, classification, confidence, impact>>
  /\ UNCHANGED <<callVars, pageVars, chatVars>>

(***************************************************************************)
(* Specifications                                                          *)
(***************************************************************************)
\* No call before this one.
FirstCall ==
  /\ calls = 1
  /\ prev = None

\* The scanner page with nothing uploaded and nothing analysed.
PageIdle ==
  /\ uploaded_file = << >>
  /\ waste_result = << >>
  /\ waste_last_filename = None

\* The chat with no message sent.
ChatIdle ==
  /\ thinking_message = None
  /\ HAS_LLM = FALSE
  /\ chat_history = << >>
  /\ rerun = FALSE

\* analyze_waste_item(image), with or without numpy.
Init ==
  /\ np \in BOOLEAN
  /\ image \in Images
  /\ pc = "inspect"
  /\ metrics = None
  /\ flags = None
  /\ classification = None
  /\ confidence = None
  /\ impact = None
  /\ result = None
  /\ FirstCall /\ PageIdle /\ ChatIdle

Next ==
  \/ InspectMetrics
  \/ InspectThresholds
  \/ InspectOverride
  \/ Classify
  \/ EstimateConfidence
  \/ ChooseImpact
  \/ Return

Spec == Init /\ [][Next]_vars

\* The pipeline from the flag deriver on, for every MetricSet of the grid.
MetricInit ==
  /\ np = TRUE
  /\ image = None
  /\ pc = "thresholds"
  /\ metrics \in MetricSets
  /\ flags = None
  /\ classification = None
  /\ confidence = None
  /\ impact = None
  /\ result = None
  /\ FirstCall /\ PageIdle /\ ChatIdle

MetricNext ==
  \/ InspectThresholds
  \/ InspectOverride
  \/ Classify
  \/ EstimateConfidence
  \/ ChooseImpact
  \/ Return

MetricSpec == MetricInit /\ [][MetricNext]_vars

\* classify_item(flags) and estimate_confidence(flags, brightness) for every
\* FlagSet and every brightness of the grid.
FlagInit ==
  /\ np = TRUE
  /\ image = None
  /\ pc = "classify"
  /\ \E b \in Hundredths(BrightnessGrid) :
       metrics = [DEFAULT_METRICS EXCEPT !.brightness = b]
  /\ flags \in FlagSets
  /\ classification = None
  /\ confidence = None
  /\ impact = None
  /\ result = None
  /\ FirstCall /\ PageIdle /\ ChatIdle

FlagNext ==
  \/ Classify
  \/ EstimateConfidence

FlagSpec == FlagInit /\ [][FlagNext]_vars

\* waste_scanner_page, lines 70-72: Analyze Item pressed again on the same
\* upload calls analyze_waste_item(image) once more.
CallAgain ==
  /\ pc = "done"
  /\ calls < MaxCalls
  /\ calls' = calls + 1
  /\ prev' = [result |-> result, bucket |-> classification[4]]
  /\ pc' = "inspect"
  /\ metrics' = None
  /\ flags' = None
  /\ classification' = None
  /\ confidence' = None
  /\ impact' = None
  /\ result' = None
  /\ UNCHANGED <<np, image, pageVars, chatVars>>

RepeatNext ==
  \/ InspectMetrics
  \/ InspectThresholds
  \/ InspectOverride
  \/ Classify
  \/ EstimateConfidence
  \/ ChooseImpact
  \/ Return
  \/ CallAgain

\* analyze_waste_item called up to MaxCalls times on one image.
RepeatSpec == Init /\ [][RepeatNext]_vars

(***************************************************************************)
(* waste_scanner_page                                                      *)
(***************************************************************************)
\* The names and the decoded contents of the files a user uploads: uniform
\* black, mid-gray and cyan pictures.
FileNames == {"a.jpg", "b.jpg", "c.png"}
FileImages == { [i \in 1..NumPixels |-> c] :
                  c \in { <<0, 0, 0>>, <<128, 128, 128>>, <<0, 255, 255>> } }
UploadedFiles == [name : FileNames, content : FileImages]

\* analyze_waste_item(image) as one call, i being random.choice's pick.
analyze_waste_item(img, i) ==
  LET m == IF ~np THEN DEFAULT_METRICS ELSE ComputeMetrics(img)
      f == Override(ThresholdFlags(m))
      c == classify_item(f)
      conf == estimate_confidence(f, m.brightness)
      imp == IMPACT_STATEMENTS[c[4]][i]
  IN AnalyzeResult(c, imp, f, m, conf)

\* One run of waste_scanner_page over the uploader's file (<< >> when there
\* is none), the session's waste_result (<< >> for None) and
\* waste_last_filename, with the two buttons' values: the session entries at
\* the end of the run and whether st.rerun() was called.
PageRun(file, res, last, analyze, scan, i) ==
  LET changed == file # << >> /\ file[1].name # last
      res1 == IF changed THEN << >> ELSE res
      last1 == IF changed THEN file[1].name ELSE last
      res2 == IF file # << >>
              THEN (IF analyze THEN << analyze_waste_item(file[1].content, i) >>
                    ELSE res1)
              ELSE << >>
      again == res2 # << >> /\ scan
  IN [ waste_result |-> IF again THEN << >> ELSE res2,
       waste_last_filename |-> IF again THEN None ELSE last1,
       rerun |-> again ]

\* The run an interaction triggers, and the run st.rerun() starts after it,
\* in which no button is pressed.
PageRuns(file, analyze, scan, i) ==
  LET first == PageRun(file, waste_result, waste_last_filename, analyze, scan, i)
      second == PageRun(file, first.waste_result, first.waste_last_filename,
                        FALSE, FALSE, i)
      last == IF first.rerun THEN second ELSE first
  IN /\ waste_result' = last.waste_result
     /\ waste_last_filename' = last.waste_last_filename

\* A file is uploaded, or put in place of the one in the uploader.
UploadFile ==
  /\ \E f \in UploadedFiles :
       /\ uploaded_file # << f >>
       /\ uploaded_file' = << f >>
       /\ PageRuns(<< f >>, FALSE, FALSE, 1)
  /\ UNCHANGED <<scanVars, callVars, chatVars>>

\* The file is removed from the uploader.
RemoveFile ==
  /\ uploaded_file # << >>
  /\ uploaded_file' = << >>
  /\ PageRuns(<< >>, FALSE, FALSE, 1)
  /\ UNCHANGED <<scanVars, callVars, chatVars>>

\* Analyze Item, shown while a file is uploaded, is pressed.
PressAnalyze ==
  /\ uploaded_file # << >>
  /\ \E i \in 1..3 : PageRuns(uploaded_file, TRUE, FALSE, i)
  /\ UNCHANGED <<uploaded_file, scanVars, callVars, chatVars>>

\* Scan Another Item, shown under a displayed result, is pressed.
PressScanAnother ==
  /\ waste_result # << >>
  /\ PageRuns(uploaded_file, FALSE, TRUE, 1)
  /\ UNCHANGED <<uploaded_file, scanVars, callVars, chatVars>>

\* The page after its first run, nothing uploaded.
PageInit ==
  /\ np \in BOOLEAN
  /\ image = None
  /\ pc = "page"
  /\ metrics = None
  /\ flags = None
  /\ classification = None
  /\ confidence = None
  /\ impact = None
  /\ result = None
  /\ FirstCall /\ PageIdle /\ ChatIdle

PageNext ==
  \/ UploadFile
  \/ RemoveFile
  \/ PressAnalyze
  \/ PressScanAnother

PageSpec == PageInit /\ [][PageNext]_vars

(***************************************************************************)
(* app.py: the chat                                                        *)
(***************************************************************************)
\* appjson.json: missing (or empty, or not JSON), present without the
\* AI.ThinkingMessage key, or present with the key set.
Configs == {"missing", "no key", "Thinking...", "One moment"}

\* load_config and C["AI_CONFIG"].get("ThinkingMessage"): None unless the
\* file is read and has the key.
ThinkingMessageOf(config) ==
  IF config \in {"missing", "no key"} THEN None ELSE config

\* What the user types in the form; the empty text is not sent.
UserInputs == {"", "hi"}

\* call_llm: the unavailable text without ollama, else the model's answer
\* (which may be any text, the thinking text included), the fallback for an
\* empty answer, or the error text.
call_llm ==
  IF ~HAS_LLM
  THEN {"Ollama is not available"}
  ELSE {"an answer", "Thinking...", "I couldn't generate a response",
        "Error calling model"}

\* process_pending_ai_response, lines 122-130: whether the last entry is
\* taken for a pending placeholder.
Pending(history) ==
  LET thinking_msg == IF thinking_message = None THEN "Thinking..."
                      ELSE thinking_message
  IN /\ Len(history) >= 2
     /\ history[Len(history)].who = "ai"
     /\ history[Len(history)].text = thinking_msg

\* process_pending_ai_response, lines 132-134: the last entry's text becomes
\* call_llm's return value and st.rerun() ends the run.
ReplacePending ==
  /\ \E response \in call_llm :
       chat_history' =
         [chat_history EXCEPT ![Len(chat_history)].text = response]
  /\ rerun' = TRUE

\* A run of main() with the chat form submitted: process_pending_ai_response
\* first, then render_chat_section, which appends the user entry and the
\* placeholder and calls st.rerun() when the input is not empty.
SubmitMessage ==
  /\ ~rerun
  /\ Len(chat_history) < 2 * MaxMessages
  /\ \E user_input \in UserInputs :
       IF Pending(chat_history)
       THEN ReplacePending
       ELSE IF user_input # ""
       THEN /\ chat_history' = chat_history \o
                 << [who |-> "user", text |-> user_input],
                    [who |-> "ai", text |-> thinking_message] >>
            /\ rerun' = TRUE
       ELSE /\ chat_history' = chat_history
            /\ rerun' = FALSE
  /\ UNCHANGED <<thinking_message, HAS_LLM, scanVars, callVars, pageVars>>

\* A run of main() without a submission, started by st.rerun() or by any
\* other interaction: process_pending_ai_response, then the page is rendered
\* to its end.
RunMain ==
  /\ IF Pending(chat_history)
     THEN ReplacePending
     ELSE /\ chat_history' = chat_history
          /\ rerun' = FALSE
  /\ UNCHANGED <<thinking_message, HAS_LLM, scanVars, callVars, pageVars>>

\* The app started with any configuration, with or without ollama.
ChatInit ==
  /\ np = TRUE
  /\ image = None
  /\ pc = "chat"
  /\ metrics = None
  /\ flags = None
  /\ classification = None
  /\ confidence = None
  /\ impact = None
  /\ result = None
  /\ FirstCall /\ PageIdle
  /\ \E config \in Configs : thinking_message = ThinkingMessageOf(config)
  /\ HAS_LLM \in BOOLEAN
  /\ chat_history = << >>
  /\ rerun = FALSE

ChatNext ==
  \/ SubmitMessage
  \/ RunMain

ChatSpec == ChatInit /\ [][ChatNext]_vars

(***************************************************************************)
(* Properties                                                              *)
(***************************************************************************)
AfterOverride == {"classify", "confidence", "impact", "return", "done"}
AfterClassify == {"confidence", "impact", "return", "done"}
AfterConfidence == {"impact", "return", "done"}

Categories == {"recycle", "rinse", "reject"}

\* The uniform images of the scenarios.
AllBlack == [i \in 1..NumPixels |-> <<0, 0, 0>>]
MidGray == [i \in 1..NumPixels |-> <<128, 128, 128>>]

Count(f) == Cardinality({ k \in FlagNames : f[k] })

\* C1: classify_item is a total ordered decision list: the result is that of
\* the first rule whose flag is true, in the order black_plastic (Not
\* Recyclable / reject), soft_plastic (Not Recyclable / reject), food_residue
\* (Rinse & Recycle / rinse), paper_lining (Rinse & Recycle / rinse),
\* clean_material (Recyclable / recycle), else the default (Rinse & Recycle /
\* rinse); every FlagSet gets a verdict of one of the three categories.
C1_OrderedDecisionList ==
  pc \in AfterClassify =>
    LET c == classification
        black == flags.black_plastic
        soft == ~black /\ flags.soft_plastic
        food == ~black /\ ~flags.soft_plastic /\ flags.food_residue
        paper == /\ ~black /\ ~flags.soft_plastic /\ ~flags.food_residue
                 /\ flags.paper_lining
        clean == /\ ~black /\ ~flags.soft_plastic /\ ~flags.food_residue
                 /\ ~flags.paper_lining /\ flags.clean_material
        none == Count(flags) = 0
    IN /\ black => c = RuleBlackPlastic /\ c[1] = "Not Recyclable" /\ c[4] = "reject"
       /\ soft => c = RuleSoftPlastic /\ c[1] = "Not Recyclable" /\ c[4] = "reject"
       /\ food => c = RuleFoodResidue /\ c[1] = "Rinse & Recycle" /\ c[4] = "rinse"
       /\ paper => c = RulePaperLining /\ c[1] = "Rinse & Recycle" /\ c[4] = "rinse"
       /\ clean => c = RuleCleanMaterial /\ c[1] = "Recyclable" /\ c[4] = "recycle"
       /\ none => c = RuleDefault /\ c[1] = "Rinse & Recycle" /\ c[4] = "rinse"
       /\ c \in { RuleBlackPlastic, RuleSoftPlastic, RuleFoodResidue,
                 RulePaperLining, RuleCleanMaterial, RuleDefault }
       /\ Len(c) = 4
       /\ c[4] \in Categories

\* C1 witness: every flag is true and the black_plastic rule has decided.
C1_Witness ==
  /\ pc = "confidence"
  /\ Count(flags) = 5
  /\ classification = RuleBlackPlastic

\* C2: in the FlagSet returned by inspect_image, clean_material is never true
\* together with food_residue, black_plastic or soft_plastic, whatever
\* neutral_fraction is.
C2_OverrideInvariant ==
  pc \in AfterOverride =>
    ~(/\ flags.clean_material
      /\ flags.food_residue \/ flags.black_plastic \/ flags.soft_plastic)

\* C2 witness: neutral_fraction is above its threshold, soft_plastic alone
\* forces clean_material to false.
C2_Witness ==
  /\ pc = "classify"
  /\ GT(metrics.neutral_fraction, 45)
  /\ flags.soft_plastic /\ ~flags.food_residue /\ ~flags.black_plastic
  /\ ~flags.clean_material

\* C3: estimate_confidence returns a value within [0.45, 0.95] for every
\* FlagSet and every brightness in [0, 1].
C3_ConfidenceRange ==
  pc \in AfterConfidence => confidence >= 450 /\ confidence <= 950

\* C3 witness: all five flags true on a well-exposed image, where the sum
\* 1.07 is cut to 0.95.
C3_Witness ==
  /\ pc = "impact"
  /\ Count(flags) = 5
  /\ metrics.brightness = <<50, 100>>
  /\ confidence = 950

ResultKeys == {"verdict", "action", "explanation", "impact", "features",
               "metrics", "confidence"}

\* C4 as stated: the result of analyze_waste_item carries the category tag
\* chosen by the classifier.
C4_ResultCarriesCategory ==
  pc = "done" => \E k \in {"category", "bucket"} : k \in DOMAIN result

\* C4 as amended: the result carries exactly the verdict, action and
\* explanation chosen by the classifier, the impact message, the FlagSet
\* (features), the MetricSet (metrics) and the confidence; the category tag,
\* one of recycle, rinse, reject, is chosen by the classifier but is not a
\* field of the result.
C4_ResultFields ==
  pc = "done" =>
    /\ DOMAIN result = ResultKeys
    /\ result.verdict = classification[1]
    /\ result.action = classification[2]
    /\ result.explanation = classification[3]
    /\ classification[4] \in Categories
    /\ result.impact = impact
    /\ result.features = flags
    /\ result.metrics = metrics
    /\ result.confidence = confidence

\* C4 witness: a returned result with the Recyclable verdict, classified
\* recycle.
C4_Witness ==
  /\ pc = "done"
  /\ np
  /\ classification[4] = "recycle"
  /\ result.verdict = "Recyclable"
  /\ result.action = "Place it in your mixed recycling bin"

\* C5: before the override each flag equals its strict threshold condition:
\* food_residue = warm_fraction > 0.32 and brightness < 0.7; black_plastic =
\* dark_fraction > 0.5 and brightness < 0.4; soft_plastic = shiny_fraction >
\* 0.45 and brightness > 0.35; paper_lining = brightness > 0.65 and
\* shiny_fraction > 0.25; clean_material = neutral_fraction > 0.45.
C5_StrictThresholds ==
  pc = "override" =>
    LET b == metrics.brightness
        dark == metrics.dark_fraction
        warm == metrics.warm_fraction
        shiny == metrics.shiny_fraction
        neutral == metrics.neutral_fraction
    IN /\ flags.food_residue = (warm[1] * 100 > 32 * warm[2] /\ b[1] * 100 < 70 * b[2])
       /\ flags.black_plastic = (dark[1] * 100 > 50 * dark[2] /\ b[1] * 100 < 40 * b[2])
       /\ flags.soft_plastic = (shiny[1] * 100 > 45 * shiny[2] /\ b[1] * 100 > 35 * b[2])
       /\ flags.paper_lining = (b[1] * 100 > 65 * b[2] /\ shiny[1] * 100 > 25 * shiny[2])
       /\ flags.clean_material = (neutral[1] * 100 > 45 * neutral[2])

\* C5 witness: every fraction sits exactly on its threshold, the brightness
\* allows food_residue, black_plastic and soft_plastic, and no flag is set.
C5_Witness ==
  /\ pc = "override"
  /\ metrics.warm_fraction = <<32, 100>>
  /\ metrics.dark_fraction = <<50, 100>>
  /\ metrics.shiny_fraction = <<45, 100>>
  /\ metrics.neutral_fraction = <<45, 100>>
  /\ metrics.brightness = <<37, 100>>
  /\ Count(flags) = 0

Cues == {"food_residue", "black_plastic", "soft_plastic", "paper_lining"}

CueCombos == [Cues -> BOOLEAN]

\* The combinations of the four cues the threshold stage produces over the
\* MetricSets of the grid.
ProducedCombos == { [k \in Cues |-> ThresholdFlags(m)[k]] : m \in MetricSets }

\* C6 as stated: every combination of truth values of food_residue,
\* black_plastic, soft_plastic and paper_lining is produced by the threshold
\* stage for some MetricSet.
C6_EveryCombination ==
  pc \in {"thresholds", "override"} => CueCombos \subseteq ProducedCombos

\* C6 as amended: black_plastic (brightness < 0.4) and paper_lining
\* (brightness > 0.65) are never true together; every combination of the
\* four cues without that pair, 12 of the 16, is produced by the threshold
\* stage for some MetricSet.
C6_CombinationsButBlackPaper ==
  /\ ProducedCombos = { c \in CueCombos : ~(c.black_plastic /\ c.paper_lining) }
  /\ pc = "override" => ~(flags.black_plastic /\ flags.paper_lining)

\* C6 witness: three cues at once, food_residue, soft_plastic and
\* paper_lining, at a brightness between 0.65 and 0.7.
C6_Witness ==
  /\ pc = "override"
  /\ flags.food_residue /\ flags.soft_plastic /\ flags.paper_lining
  /\ ~flags.black_plastic

\* C7: estimate_confidence is the clamp to [0.45, 0.95] of 0.6 + 0.08 *
\* max(n - 1, 0), n the number of true flags, plus 0.1 once if clean_material
\* or black_plastic is true, plus 0.05 if brightness is strictly between 0.35
\* and 0.8; the value has two decimal places.
C7_ConfidenceFormula ==
  pc \in AfterConfidence =>
    LET n == Count(flags)
        b == metrics.brightness
        extra == IF n > 1 THEN 80 * (n - 1) ELSE 0
        decisive == IF flags.clean_material \/ flags.black_plastic THEN 100 ELSE 0
        exposed == IF b[1] * 100 > 35 * b[2] /\ b[1] * 100 < 80 * b[2] THEN 50 ELSE 0
        sum == 600 + extra + decisive + exposed
    IN /\ confidence = (IF sum < 450 THEN 450 ELSE IF sum > 950 THEN 950 ELSE sum)
       /\ confidence % 10 = 0

\* C7 witness: clean_material and black_plastic both true at brightness
\* exactly 0.8: 0.6 + 0.08 + 0.1 (once) and no brightness bonus.
C7_Witness ==
  /\ pc = "impact"
  /\ flags.clean_material /\ flags.black_plastic /\ Count(flags) = 2
  /\ metrics.brightness = <<80, 100>>
  /\ confidence = 780

\* C8: without numpy, inspect_image returns the default MetricSet (brightness
\* 0.55, the four fractions 0.2) whatever the image, all five flags are
\* false, and classify_item takes the default rule (Rinse & Recycle, rinse);
\* the call runs to its return.
C8_FallbackMode ==
  ~np =>
    /\ pc # "inspect" =>
         metrics = [ brightness |-> <<55, 100>>, dark_fraction |-> <<20, 100>>,
                     warm_fraction |-> <<20, 100>>, shiny_fraction |-> <<20, 100>>,
                     neutral_fraction |-> <<20, 100>> ]
    /\ pc \in {"override"} \cup AfterOverride => Count(flags) = 0
    /\ pc \in AfterClassify =>
         /\ classification = RuleDefault
         /\ classification[1] = "Rinse & Recycle"
         /\ classification[4] = "rinse"
    /\ pc = "done" =>
         /\ result.verdict = "Rinse & Recycle"
         /\ Count(result.features) = 0

\* C8 witness: the call has returned without numpy, on an image that with
\* numpy is black plastic.
C8_Witness ==
  /\ ~np
  /\ pc = "done"
  /\ image = AllBlack
  /\ result.action = "Give it a quick check"

OnlyFlag(f, name) == \A k \in FlagNames : f[k] = (k = name)

\* C9 as stated: an all-black image gives brightness 0, dark_fraction 1 and
\* warm, shiny and neutral fractions 0; black_plastic is the only true flag;
\* the verdict is Not Recyclable, category reject; the confidence is 0.70.
C9_AllBlackImage ==
  (np /\ pc = "done" /\ image = AllBlack) =>
    /\ result.metrics.brightness[1] = 0
    /\ result.metrics.dark_fraction[1] = result.metrics.dark_fraction[2]
    /\ result.metrics.warm_fraction[1] = 0
    /\ result.metrics.shiny_fraction[1] = 0
    /\ result.metrics.neutral_fraction[1] = 0
    /\ OnlyFlag(result.features, "black_plastic")
    /\ result.verdict = "Not Recyclable"
    /\ classification[4] = "reject"
    /\ result.confidence = 700

\* C9 as amended: an all-black image gives brightness 0, dark_fraction 1,
\* warm and shiny fractions 0 and neutral_fraction 1 (a black pixel has no
\* spread over its channels); the threshold stage sets black_plastic and
\* clean_material and the override clears clean_material, so black_plastic is
\* the only true flag returned; the verdict is Not Recyclable, category
\* reject; the confidence is 0.70.
C9_AllBlackNeutral ==
  (np /\ image = AllBlack) =>
    /\ pc = "override" =>
         /\ flags.black_plastic /\ flags.clean_material
         /\ Count(flags) = 2
    /\ pc = "done" =>
         /\ result.metrics.brightness[1] = 0
         /\ result.metrics.dark_fraction[1] = result.metrics.dark_fraction[2]
         /\ result.metrics.warm_fraction[1] = 0
         /\ result.metrics.shiny_fraction[1] = 0
         /\ result.metrics.neutral_fraction[1] = result.metrics.neutral_fraction[2]
         /\ OnlyFlag(result.features, "black_plastic")
         /\ result.verdict = "Not Recyclable"
         /\ classification[4] = "reject"
         /\ result.confidence = 700

\* C9 witness: the analysis of the all-black image has returned.
C9_Witness ==
  /\ np
  /\ pc = "done"
  /\ image = AllBlack
  /\ result.features.black_plastic
  /\ result.confidence = 700

\* C10: a uniform mid-gray image gives brightness about 0.5 (128/255),
\* dark, warm and shiny fractions 0 and neutral_fraction 1; clean_material is
\* the only true flag; the verdict is Recyclable, category recycle; the
\* confidence is 0.75.
C10_MidGrayImage ==
  (np /\ pc = "done" /\ image = MidGray) =>
    /\ result.metrics.brightness[1] * 255 = 128 * result.metrics.brightness[2]
    /\ result.metrics.brightness[1] * 100 > 49 * result.metrics.brightness[2]
    /\ result.metrics.brightness[1] * 100 < 51 * result.metrics.brightness[2]
    /\ result.metrics.dark_fraction[1] = 0
    /\ result.metrics.warm_fraction[1] = 0
    /\ result.metrics.shiny_fraction[1] = 0
    /\ result.metrics.neutral_fraction[1] = result.metrics.neutral_fraction[2]
    /\ OnlyFlag(result.features, "clean_material")
    /\ result.verdict = "Recyclable"
    /\ classification[4] = "recycle"
    /\ result.confidence = 750

\* C10 witness: the analysis of the mid-gray image has returned.
C10_Witness ==
  /\ np
  /\ pc = "done"
  /\ image = MidGray
  /\ result.features.clean_material
  /\ result.confidence = 750

\* The messages of a category's list.
Messages(bucket) ==
  { IMPACT_STATEMENTS[bucket][i] : i \in DOMAIN IMPACT_STATEMENTS[bucket] }

\* C11: the impact message of an analysis is one of the three messages
\* listed for the category classify_item returned for that analysis, and is
\* in no other category's list, whatever random.choice picks.
C11_ImpactOfCategory ==
  /\ pc \in {"return", "done"} =>
       /\ classification[4] \in Categories
       /\ Cardinality(Messages(classification[4])) = 3
       /\ impact \in Messages(classification[4])
       /\ \A other \in Categories \ {classification[4]} :
            impact \notin Messages(other)
  /\ pc = "done" => result.impact = impact

\* C11 witness: a reject analysis has returned with the third message of the
\* reject list.
C11_Witness ==
  /\ pc = "done"
  /\ classification[4] = "reject"
  /\ result.impact = "Good catch"

\* C14: for a FlagSet and brightness that inspect_image produces from a
\* MetricSet with metrics in [0,1], at most three flags are true, the
\* unclamped sum lies in [0.60, 0.91], and the confidence returned is that
\* sum: neither clamp changes it.
C14_ClampNeverActs ==
  /\ pc \in AfterOverride => Count(flags) <= 3
  /\ pc \in AfterConfidence =>
       LET n == Count(flags)
           b == metrics.brightness
           extra == IF n > 1 THEN 80 * (n - 1) ELSE 0
           decisive == IF flags.clean_material \/ flags.black_plastic THEN 100 ELSE 0
           exposed == IF GT(b, 35) /\ LT(b, 80) THEN 50 ELSE 0
           sum == 600 + extra + decisive + exposed
       IN /\ sum >= 600 /\ sum <= 910
          /\ confidence = sum
  /\ pc = "done" => result.confidence = confidence

\* C14 witness: three flags with black_plastic among them on a well-exposed
\* image, the largest sum, 0.91, returned as it is.
C14_Witness ==
  /\ pc = "done"
  /\ Count(flags) = 3
  /\ flags.black_plastic
  /\ result.confidence = 910

\* C12: a later run of analyze_waste_item on the same image gives the same
\* metrics, flags, verdict, action, explanation, category and confidence as
\* the run before it, whatever impact message either run picked.
C12_ImpactChoiceIsolated ==
  (calls > 1 /\ pc = "done") =>
    /\ result.metrics = prev.result.metrics
    /\ result.features = prev.result.features
    /\ result.verdict = prev.result.verdict
    /\ result.action = prev.result.action
    /\ result.explanation = prev.result.explanation
    /\ classification[4] = prev.bucket
    /\ result.confidence = prev.result.confidence

\* C12 witness: two runs on one image have returned different impact
\* messages.
C12_Witness ==
  /\ calls > 1
  /\ pc = "done"
  /\ np
  /\ result.impact # prev.result.impact

\* C15: at the end of every run of waste_scanner_page, a displayed result is
\* an analysis of the image that is uploaded now, and with no file uploaded
\* waste_result is None.
C15_ResultOfCurrentUpload ==
  /\ uploaded_file = << >> => waste_result = << >>
  /\ waste_result # << >> =>
       /\ uploaded_file # << >>
       /\ \E i \in 1..3 :
            waste_result[1] = analyze_waste_item(uploaded_file[1].content, i)

\* C13: for every configuration, a missing or empty configuration file
\* included, the placeholder appended after a user message is replaced by the
\* next run: once a run has completed with no rerun asked for, the last
\* history entry is not the placeholder.
C13_PlaceholderReplaced ==
  (~rerun /\ Len(chat_history) > 0) =>
    ~(/\ chat_history[Len(chat_history)].who = "ai"
      /\ chat_history[Len(chat_history)].text = thinking_message)

====
